---- MODULE Spec2Model ----
(***************************************************************************)
(* Model of the EmailModal component (src/src/EmailModal.tsx) as mounted   *)
(* by its caller (src/src/Demo.tsx).                                       *)
(*                                                                         *)
(* A JavaScript string is a sequence of one-character strings, so that     *)
(* concatenation, padding, splitting and URI encoding are computed         *)
(* character by character.  The JavaScript value undefined is Undefined.   *)
(***************************************************************************)
EXTENDS Integers, Sequences, FiniteSets

VARIABLES
    props,          \* EmailModalProps handed over by the caller
    env,            \* host browser: whether navigator.clipboard exists
    base,           \* local calendar day of the wall clock
    now,            \* wall clock, seconds since local midnight of base
    showModal,      \* Demo.tsx: the caller's visibility flag
    mounted,        \* the EmailModal instance is in the render tree
    contactName, contactPhone, contactCompany, copySuccess,  \* useState
    inquiryNumber,  \* useMemo(() => generateInquiryNumber(), [])
    pendingWrites,  \* handleCopyText invocations suspended at the await
    timers,         \* setTimeout callbacks not yet run
    mountDate,      \* history: the Date read when the instance was mounted
    lastSuccessAt,  \* history: time of the last successful copy, while its
                    \* feedback window lasts
    last            \* history: what the latest step did and handed to the host

vars == << props, env, base, now, showModal, mounted, contactName,
           contactPhone, contactCompany, copySuccess, inquiryNumber,
           pendingWrites, timers, mountDate, lastSuccessAt, last >>

-----------------------------------------------------------------------------
(* Bounds of the model *)

MaxPending == 1     \* clipboard writes pending at once
MaxElapsed == 3     \* seconds the wall clock advances

(* setTimeout(..., 2000), in seconds *)
RevertDelay == 2

-----------------------------------------------------------------------------
(* JavaScript values *)

Undefined == << "undefined" >>

EmptyString == << >>

\* JavaScript truthiness of an optional string
Truthy(v) == v # Undefined /\ v # EmptyString

\* a || b
OrElse(a, b) == IF Truthy(a) THEN a ELSE b

\* `${v}`: a template literal renders undefined as the word
Interpolate(v) ==
    IF v = Undefined THEN << "u", "n", "d", "e", "f", "i", "n", "e", "d" >> ELSE v

Digits == << "0", "1", "2", "3", "4", "5", "6", "7", "8", "9" >>

RECURSIVE NumberToString(_)
\* String(n) and `${n}` of a non-negative integer
NumberToString(n) ==
    IF n < 10 THEN << Digits[n + 1] >>
    ELSE NumberToString(n \div 10) \o << Digits[(n % 10) + 1] >>

RECURSIVE padStart(_, _, _)
\* String.prototype.padStart with a one-character fill
padStart(s, targetLength, fill) ==
    IF Len(s) >= targetLength THEN s
    ELSE padStart(<< fill >> \o s, targetLength, fill)

\* new Date() and its local-time getters
DateAt(calendarDay, t) ==
    [ getFullYear |-> calendarDay.year, getMonth |-> calendarDay.month,
      getDate |-> calendarDay.date,
      getHours |-> t \div 3600, getMinutes |-> (t \div 60) % 60,
      getSeconds |-> t % 60 ]

year(d) == NumberToString(d.getFullYear)

\* getMonth() taken for the calendar month
monthZeroBased(d) == padStart(NumberToString(d.getMonth), 2, "0")

month(d) == padStart(NumberToString(d.getMonth + 1), 2, "0")

day(d) == padStart(NumberToString(d.getDate), 2, "0")

hours(d) == padStart(NumberToString(d.getHours), 2, "0")

minutes(d) == padStart(NumberToString(d.getMinutes), 2, "0")

seconds(d) == padStart(NumberToString(d.getSeconds), 2, "0")

generateInquiryNumber(d) ==
    year(d) \o month(d) \o day(d) \o << "-" >> \o hours(d) \o minutes(d) \o seconds(d)

-----------------------------------------------------------------------------
(* Derived strings of one render *)

\* the title fallback applied only to a missing subjectTitle
titleForSubjectNullish(p) == IF p.subjectTitle = Undefined THEN p.title ELSE p.subjectTitle

\* const titleForSubject = subjectTitle || title
titleForSubject(p) == OrElse(p.subjectTitle, p.title)

\* the useMemo callback computing emailSubject
emailSubject(p, inq) ==
    IF Truthy(p.subjectText)
    THEN Interpolate(titleForSubject(p)) \o << " " >> \o Interpolate(p.subjectText)
            \o << " ", "#" >> \o Interpolate(inq)
    ELSE OrElse(p.subject, EmptyString)

\* const body = `${bodyWithoutContact}\n\nName: ...\nTelefon: ...\nFirma: ...`
body(p, name, phone, company) ==
    Interpolate(p.bodyWithoutContact)
        \o << "\n", "\n", "N", "a", "m", "e", ":", " " >> \o name
        \o << "\n", "T", "e", "l", "e", "f", "o", "n", ":", " " >> \o phone
        \o << "\n", "F", "i", "r", "m", "a", ":", " " >> \o company

\* the header and the body separated by a single line break
fullEmailTextNoBlankLine(emailTo, subject, bodyText) ==
    << "A", "n", ":", " " >> \o Interpolate(emailTo)
        \o << "\n", "B", "e", "t", "r", "e", "f", "f", ":", " " >> \o subject
        \o << "\n" >> \o bodyText

\* const fullEmailText = `An: ${emailTo}\nBetreff: ${emailSubject}\n\n${body}`
fullEmailText(emailTo, subject, bodyText) ==
    << "A", "n", ":", " " >> \o Interpolate(emailTo)
        \o << "\n", "B", "e", "t", "r", "e", "f", "f", ":", " " >> \o subject
        \o << "\n", "\n" >> \o bodyText

\* characters encodeURIComponent leaves alone: A-Z a-z 0-9 - _ . ! ~ * ' ( )
Unreserved ==
    { "A", "B", "C", "D", "E", "F", "G", "H", "I", "J", "K", "L", "M", "N",
      "O", "P", "Q", "R", "S", "T", "U", "V", "W", "X", "Y", "Z", "a", "b",
      "c", "d", "e", "f", "g", "h", "i", "j", "k", "l", "m", "n", "o", "p",
      "q", "r", "s", "t", "u", "v", "w", "x", "y", "z", "0", "1", "2", "3",
      "4", "5", "6", "7", "8", "9", "-", "_", ".", "!", "~", "*", "'", "(",
      ")" }

\* encodeURIComponent of one character: %HH of its UTF-8 byte
EncodeChar(c) ==
    CASE c \in Unreserved -> << c >>
      [] c = " " -> << "%", "2", "0" >>
      [] c = "\n" -> << "%", "0", "A" >>
      [] c = "#" -> << "%", "2", "3" >>
      [] c = ":" -> << "%", "3", "A" >>
      [] c = "@" -> << "%", "4", "0" >>

RECURSIVE encodeURIComponent(_)
encodeURIComponent(s) ==
    IF s = << >> THEN << >>
    ELSE EncodeChar(Head(s)) \o encodeURIComponent(Tail(s))

\* const mailtoLink = `mailto:${emailTo}?subject=...&body=...`
mailtoLink(emailTo, subject, bodyText) ==
    << "m", "a", "i", "l", "t", "o", ":" >> \o Interpolate(emailTo)
        \o << "?", "s", "u", "b", "j", "e", "c", "t", "=" >> \o encodeURIComponent(subject)
        \o << "&", "b", "o", "d", "y", "=" >> \o encodeURIComponent(bodyText)

\* /Chrome/i.test(userAgent) && !/Edg/i.test(userAgent): how the URI is dispatched
DispatchVia(isChrome) == IF isChrome THEN "anchorClick" ELSE "locationHref"

\* the inquiry number computed on every render
useMemoEveryRender(cached, d) == generateInquiryNumber(d)

\* useMemo(() => generateInquiryNumber(), []): the dependency list is empty, so a
\* re-render at date d returns the cached value
useMemoInquiryNumber(cached, d) == cached

-----------------------------------------------------------------------------
(* The rendered tree and click propagation *)

Elements ==
    { "overlay", "modal", "nameInput", "phoneInput", "companyInput", "textarea",
      "copyButton", "openButton", "closeButton" }

\* parent element in the returned JSX; the overlay is the root
Parent(e) ==
    CASE e = "overlay" -> "root"
      [] e = "modal" -> "overlay"
      [] OTHER -> "modal"

\* the modal surface without its click handler
ModalOnClickMissing == "none"

\* onClick of the modal surface
ModalOnClick == "stopPropagation"

\* onClick prop of each element
OnClick(e) ==
    CASE e = "overlay" -> "onClose"
      [] e = "modal" -> ModalOnClick
      [] e = "copyButton" -> "handleCopyText"
      [] e = "openButton" -> "handleOpenEmail"
      [] e = "closeButton" -> "onClose"
      [] OTHER -> "none"

RECURSIVE Propagate(_)
\* handlers a click on e runs, in bubbling order, up to a stopPropagation
Propagate(e) ==
    IF e = "root" THEN << >>
    ELSE IF OnClick(e) = "stopPropagation" THEN << >>
    ELSE (IF OnClick(e) = "none" THEN << >> ELSE << OnClick(e) >>)
            \o Propagate(Parent(e))

Runs(handlers, h) == \E i \in 1..Len(handlers) : handlers[i] = h

\* the sent-callback invoked before the hand-off
OpenEmailEventsSentFirst(onEmailSent) ==
    (IF onEmailSent = "absent" THEN << >> ELSE << "onEmailSent" >>) \o << "mailto" >>

\* callbacks and hand-offs handleOpenEmail performs, in order
OpenEmailEvents(onEmailSent) ==
    << "mailto" >> \o (IF onEmailSent = "absent" THEN << >> ELSE << "onEmailSent" >>)

RECURSIVE EventsOf(_, _)
\* what the handlers of one click do towards the caller and the host, in order
EventsOf(handlers, onEmailSent) ==
    IF handlers = << >> THEN << >>
    ELSE (CASE Head(handlers) = "onClose" -> << "onClose" >>
            [] Head(handlers) = "handleOpenEmail" -> OpenEmailEvents(onEmailSent)
            [] OTHER -> << >>)
         \o EventsOf(Tail(handlers), onEmailSent)

Count(events, e) == Cardinality({ i \in 1..Len(events) : events[i] = e })

-----------------------------------------------------------------------------
(* Configurations *)

\* <EmailModal ... /> as Demo.tsx renders it: structured subject, and an
\* onEmailSent that hides the modal
PropsDemo ==
    [ title |-> << "T" >>, emailTo |-> << "i", "@", "s" >>, subject |-> Undefined,
      subjectTitle |-> << "A" >>, subjectText |-> << "X" >>,
      bodyWithoutContact |-> << "H" >>, onEmailSent |-> "close" ]

\* the README usage: legacy subject, no onEmailSent
PropsReadme ==
    [ title |-> << "C" >>, emailTo |-> << "c", "@", "s" >>, subject |-> << "C", "A", "D" >>,
      subjectTitle |-> Undefined, subjectText |-> Undefined,
      bodyWithoutContact |-> << "H" >>, onEmailSent |-> "absent" ]

\* the usage example printed by Demo.tsx: onEmailSent only logs
PropsExample == [ PropsDemo EXCEPT !.subjectTitle = Undefined, !.onEmailSent = "log" ]

Hosts == [ clipboard : BOOLEAN ]

\* 2025-10-26 14:30:59, the moment before the example of the header comment
Days == { [ year |-> 2025, month |-> 9, date |-> 26, start |-> 52259 ] }

\* what the user can have typed into a contact input
ContactValues == { EmptyString, << "x" >> }

-----------------------------------------------------------------------------
(* State *)

\* the record of one step: the operation, the element clicked, how the copy
\* went, the callbacks and hand-offs in order, the flag before the step, the text
\* handed to the clipboard, the URI handed to the mail client, and whether a
\* state setter was called on an instance no longer in the render tree
Step(op, target, outcome, events, text, uri, stale) ==
    [ op |-> op, target |-> target, outcome |-> outcome, events |-> events,
      flagBefore |-> copySuccess, text |-> text, mailto |-> uri, stale |-> stale ]

\* no URI handed over
NoLink == [ href |-> Undefined, via |-> "none" ]

Quiet(op, target) == Step(op, target, "none", << >>, Undefined, NoLink, FALSE)

\* the first render of EmailModal, at the date the wall clock shows
Mounted ==
    /\ showModal = TRUE /\ mounted = TRUE
    /\ contactName = EmptyString /\ contactPhone = EmptyString
    /\ contactCompany = EmptyString /\ copySuccess = FALSE
    /\ inquiryNumber = generateInquiryNumber(DateAt(base, now))
    /\ mountDate = DateAt(base, now)
    /\ pendingWrites = << >> /\ timers = { }
    /\ lastSuccessAt = -1
    /\ last = [ op |-> "mount", target |-> "none", outcome |-> "none", events |-> << >>,
                flagBefore |-> FALSE, text |-> Undefined, mailto |-> NoLink,
                stale |-> FALSE ]

Init ==
    /\ props \in { PropsDemo, PropsReadme, PropsExample }
    /\ env \in Hosts
    /\ base \in Days
    /\ now = base.start
    /\ Mounted

\* the component re-renders: hooks run again at the current date
Rerender == inquiryNumber' = useMemoInquiryNumber(inquiryNumber, DateAt(base, now))

\* setTimeout(() => setCopySuccess(false), 2000); timers due at the same second
\* run the same callback and are kept as one
Scheduled == timers \cup { now + RevertDelay }

\* the caller has hidden the modal and React removes it before anything else runs
Leaving == mounted /\ ~showModal

-----------------------------------------------------------------------------
(* Actions *)

\* Demo.tsx: showModal && <EmailModal/> with showModal false removes the instance
Unmount ==
    /\ mounted /\ ~showModal
    /\ mounted' = FALSE
    /\ last' = Quiet("unmount", "none")
    /\ UNCHANGED << props, env, base, now, showModal, contactName,
                    contactPhone, contactCompany, copySuccess, inquiryNumber,
                    pendingWrites, timers, mountDate, lastSuccessAt >>

\* onChange of the three inputs
EditContact ==
    /\ mounted /\ ~Leaving
    /\ \E field \in { "nameInput", "phoneInput", "companyInput" }, v \in ContactValues :
        /\ contactName' = IF field = "nameInput" THEN v ELSE contactName
        /\ contactPhone' = IF field = "phoneInput" THEN v ELSE contactPhone
        /\ contactCompany' = IF field = "companyInput" THEN v ELSE contactCompany
        /\ last' = Quiet("edit", field)
    /\ Rerender
    /\ UNCHANGED << props, env, base, now, showModal, mounted, copySuccess,
                    pendingWrites, timers, mountDate, lastSuccessAt >>

\* handleCopyText up to its await (clipboard API) or to its end (legacy path);
\* the flag it tests before setTimeout is the copySuccess of the render it was
\* created in
HandleCopyText(outcome) ==
    IF env.clipboard
    THEN /\ outcome = "pending"
         /\ Len(pendingWrites) < MaxPending
         /\ pendingWrites' = Append(pendingWrites, [ closure |-> copySuccess ])
         /\ UNCHANGED << copySuccess, timers, lastSuccessAt, inquiryNumber >>
    ELSE /\ outcome \in { "true", "false", "throw" }
         /\ IF outcome = "throw"
            THEN UNCHANGED << copySuccess, timers, lastSuccessAt, inquiryNumber >>
            ELSE /\ copySuccess' = (outcome = "true")
                 /\ timers' = IF copySuccess THEN Scheduled ELSE timers
                 /\ lastSuccessAt' = IF outcome = "true" THEN now ELSE lastSuccessAt
                 /\ Rerender
         /\ UNCHANGED pendingWrites

\* a click on an element of the modal: every handler on the propagation path runs
Click(target, outcome, isChrome) ==
    /\ mounted /\ ~Leaving
    /\ LET handlers == Propagate(target)
           events == EventsOf(handlers, props.onEmailSent)
           subject == emailSubject(props, inquiryNumber)
           bodyText == body(props, contactName, contactPhone, contactCompany)
           copies == Runs(handlers, "handleCopyText")
           opens == Runs(handlers, "handleOpenEmail")
       IN  /\ IF copies
              THEN HandleCopyText(outcome)
              ELSE /\ outcome = "none"
                   /\ UNCHANGED << copySuccess, timers, lastSuccessAt, inquiryNumber,
                                   pendingWrites >>
           /\ showModal' = IF \/ Count(events, "onClose") > 0
                              \/ Count(events, "onEmailSent") > 0 /\ props.onEmailSent = "close"
                           THEN FALSE ELSE showModal
           /\ last' = Step("click", target, outcome, events,
                           IF copies THEN fullEmailText(props.emailTo, subject, bodyText)
                           ELSE Undefined,
                           IF opens
                           THEN [ href |-> mailtoLink(props.emailTo, subject, bodyText),
                                  via |-> DispatchVia(isChrome) ]
                           ELSE NoLink,
                           FALSE)
    /\ UNCHANGED << props, env, base, now, mounted, contactName, contactPhone,
                    contactCompany, mountDate >>

Outcomes == { "pending", "true", "false", "throw" }

ClickBackdrop == Click("overlay", "none", FALSE)

ClickSurface ==
    \E target \in Elements \ { "overlay", "copyButton", "openButton", "closeButton" } :
        Click(target, "none", FALSE)

ClickCopy == \E outcome \in Outcomes : Click("copyButton", outcome, FALSE)

\* navigator.userAgent is read at every call
ClickOpenEmail == \E isChrome \in BOOLEAN : Click("openButton", "none", isChrome)

ClickClose == Click("closeButton", "none", FALSE)

\* navigator.clipboard.writeText resolves: handleCopyText resumes after the await
WriteResolves ==
    /\ pendingWrites # << >> /\ ~Leaving
    /\ LET w == Head(pendingWrites) IN
        /\ pendingWrites' = Tail(pendingWrites)
        /\ IF mounted
           THEN copySuccess' = TRUE /\ lastSuccessAt' = now /\ Rerender
           ELSE UNCHANGED << copySuccess, lastSuccessAt, inquiryNumber >>
        /\ timers' = IF w.closure THEN Scheduled ELSE timers
        /\ last' = Step("write", "copyButton", "resolved", << >>, Undefined, NoLink,
                        ~mounted)
    /\ UNCHANGED << props, env, base, now, showModal, mounted, contactName,
                    contactPhone, contactCompany, mountDate >>

\* navigator.clipboard.writeText rejects: the catch block logs
WriteRejects ==
    /\ pendingWrites # << >> /\ ~Leaving
    /\ pendingWrites' = Tail(pendingWrites)
    /\ last' = Step("write", "copyButton", "rejected", << >>, Undefined, NoLink, FALSE)
    /\ UNCHANGED << props, env, base, now, showModal, mounted, contactName,
                    contactPhone, contactCompany, copySuccess, inquiryNumber, timers,
                    mountDate, lastSuccessAt >>

\* a revert timer runs its callback: () => setCopySuccess(false)
TimerFires ==
    \E t \in timers :
        /\ t <= now /\ ~Leaving
        /\ timers' = timers \ { t }
        /\ IF mounted
           THEN copySuccess' = FALSE /\ Rerender
           ELSE UNCHANGED << copySuccess, inquiryNumber >>
        /\ last' = Step("timer", "none", "none", << >>, Undefined, NoLink,
                        ~mounted)
        /\ UNCHANGED << props, env, base, now, showModal, mounted,
                        contactName, contactPhone, contactCompany, pendingWrites,
                        mountDate, lastSuccessAt >>

\* the wall clock advances by one second; a timer that is due runs first
Tick ==
    /\ now < base.start + MaxElapsed /\ ~Leaving
    /\ \A t \in timers : t > now
    /\ now' = now + 1
    /\ lastSuccessAt' = IF lastSuccessAt + RevertDelay <= now + 1 THEN -1
                        ELSE lastSuccessAt
    /\ last' = Quiet("tick", "none")
    /\ UNCHANGED << props, env, base, showModal, mounted, contactName,
                    contactPhone, contactCompany, copySuccess, inquiryNumber,
                    pendingWrites, timers, mountDate >>

Next ==
    \/ Unmount
    \/ EditContact
    \/ ClickBackdrop
    \/ ClickSurface
    \/ ClickCopy
    \/ ClickOpenEmail
    \/ ClickClose
    \/ WriteResolves
    \/ WriteRejects
    \/ TimerFires
    \/ Tick

Spec == Init /\ [][Next]_vars

-----------------------------------------------------------------------------
(* The composed strings over a wide range of props and mount dates *)

\* an optional prop: absent, empty, or one of the given strings
Optional(S) == { Undefined, EmptyString } \cup S

\* every combination of the four props the subject is composed from
SubjectProps ==
    { [ PropsReadme EXCEPT !.title = t, !.subjectTitle = st, !.subjectText = sx,
                           !.subject = su ] :
        t \in { EmptyString, << "T" >> }, st \in Optional({ << "A" >> }),
        sx \in Optional({ << "X" >> }), su \in Optional({ << "S" >> }) }

\* recipients, subjects and body templates with and without line breaks
PayloadProps ==
    { [ PropsDemo EXCEPT !.emailTo = e, !.subjectText = sx, !.bodyWithoutContact = b ] :
        e \in { EmptyString, << "a" >>, << "a", "\n", "b" >>, << "a", "\n", "\n" >> },
        sx \in { Undefined, << "X" >>, << "X", "\n", "Y" >>, << "X", "\n" >> },
        b \in { EmptyString, << "H" >>, << "\n", "\n", "H" >> } }

\* local dates a Date object can hold, around the widths of the fields
WideDays ==
    { [ year |-> y, month |-> m, date |-> d, start |-> t ] :
        y \in { 999, 1000, 2025, 9999, 10000 }, m \in { 0, 8, 9, 11 },
        d \in { 9, 10, 31 }, t \in { 0, 32949, 86399 } }

InitWide ==
    /\ \/ props \in SubjectProps /\ base \in Days
       \/ props \in PayloadProps /\ base \in Days
       \/ props = PropsDemo /\ base \in WideDays
    /\ env \in Hosts
    /\ now = base.start
    /\ Mounted

NextWide ==
    \/ EditContact
    \/ ClickCopy
    \/ ClickOpenEmail
    \/ WriteResolves

SpecWide == InitWide /\ [][NextWide]_vars

-----------------------------------------------------------------------------
(* Properties of the copy feedback *)

CopySucceeded == last.outcome \in { "true", "resolved" } /\ ~last.stale

CopyFailed == last.outcome \in { "false", "throw", "rejected" }

\* C1: right after every successful copy on the mounted component, the first
\* one included, the feedback flag is true and the revert that clears it once
\* the 2-second window has elapsed is scheduled.
C1_SuccessfulCopyShowsAndReverts ==
    CopySucceeded => copySuccess /\ (now + RevertDelay) \in timers

\* C2: no state setter is ever called on the instance after it was unmounted,
\* neither by a revert timer nor by a clipboard write that was pending.
C2_NoUpdateAfterUnmount == ~last.stale

\* C3: a failed copy (write rejected, legacy command false or throwing) leaves
\* the feedback flag as it was before the action, whatever it was.
C3_FailedCopyKeepsFlag == CopyFailed => copySuccess = last.flagBefore

\* C10: a revert timer that runs while the 2-second window of the latest
\* successful copy still lasts leaves the feedback flag true.
C10_FlagTrueForFullWindow ==
    (mounted /\ last.op = "timer" /\ lastSuccessAt # -1) => copySuccess

-----------------------------------------------------------------------------
(* Properties of the inquiry number, the open-email action and the clicks *)

MountNumber == generateInquiryNumber(mountDate)

MountSubject == emailSubject(props, MountNumber)

ContactBody == body(props, contactName, contactPhone, contactCompany)

\* C5: the inquiry number in the rendered subject, in the text handed to the
\* clipboard and in the mailto URI is the one generated from the date of the
\* mount, whatever happened and however far the clock advanced since.
C5_InquiryNumberStable ==
    /\ inquiryNumber = MountNumber
    /\ last.text # Undefined =>
            last.text = fullEmailText(props.emailTo, MountSubject, ContactBody)
    /\ last.mailto.href # Undefined =>
            last.mailto.href = mailtoLink(props.emailTo, MountSubject, ContactBody)

\* a copy or an open-email after an edit, in a later minute than the mount, with
\* the number part of the subject
C5_Witness ==
    /\ last.op = "click" /\ last.target \in { "copyButton", "openButton" }
    /\ Truthy(props.subjectText)
    /\ contactName # EmptyString
    /\ DateAt(base, now).getMinutes # mountDate.getMinutes

OpenEmailStep == last'.op = "click" /\ last'.target = "openButton"

\* C6: the open-email action changes neither the contact fields, the feedback
\* flag, the inquiry number nor the mounting; it never calls onClose, and it
\* calls onEmailSent, when supplied, once and after the hand-off of the URI.
C6_OpenEmailFrame ==
    [][ OpenEmailStep =>
            /\ UNCHANGED << contactName, contactPhone, contactCompany, copySuccess,
                            inquiryNumber, mounted, timers, pendingWrites >>
            /\ last'.mailto.href # Undefined
            /\ last'.events = IF props.onEmailSent = "absent" THEN << "mailto" >>
                              ELSE << "mailto", "onEmailSent" >> ]_vars

\* open-email with feedback showing, a contact typed and a sent-callback
C6_Witness ==
    /\ last.op = "click" /\ last.target = "openButton"
    /\ copySuccess /\ contactPhone # EmptyString
    /\ props.onEmailSent # "absent"

\* C7: onClose is called once by a click on the backdrop or on the close
\* button, and by nothing else: not by a click on the surface or on another
\* control inside it, and not by any other step.
C7_OnCloseOnlyFromBackdropOrClose ==
    Count(last.events, "onClose") =
        IF last.op = "click" /\ last.target \in { "overlay", "closeButton" } THEN 1 ELSE 0

C7_Witness == last.op = "click" /\ last.target = "closeButton" /\ mounted

-----------------------------------------------------------------------------
(* Properties of the composed strings *)

\* the subject of the current render
RenderedSubject == emailSubject(props, inquiryNumber)

NonEmpty(v) == v # Undefined /\ v # EmptyString

Supplied(v) == v # Undefined

\* C4 as stated: a prop that is supplied counts as present, an empty one too.
C4_SubjectFromSuppliedProps ==
    RenderedSubject =
        IF Supplied(props.subjectText)
        THEN (IF Supplied(props.subjectTitle) THEN props.subjectTitle ELSE props.title)
                \o << " " >> \o props.subjectText \o << " ", "#" >> \o inquiryNumber
        ELSE IF Supplied(props.subject) THEN props.subject ELSE EmptyString

\* C4, amended: with a non-empty subjectText the subject is
\* "<effectiveTitle> <subjectText> #<inquiryNumber>", effectiveTitle being
\* subjectTitle when non-empty and title otherwise, and the legacy subject is
\* ignored; with subjectText absent or empty it is the legacy subject when
\* non-empty and the empty string otherwise.
C4_SubjectFromNonEmptyProps ==
    RenderedSubject =
        IF NonEmpty(props.subjectText)
        THEN (IF NonEmpty(props.subjectTitle) THEN props.subjectTitle ELSE props.title)
                \o << " " >> \o props.subjectText \o << " ", "#" >> \o inquiryNumber
        ELSE IF NonEmpty(props.subject) THEN props.subject ELSE EmptyString

\* the subject copied with an empty subjectTitle, a subjectText and a legacy subject
C4_Witness ==
    /\ props.subjectTitle = EmptyString /\ NonEmpty(props.subjectText)
    /\ NonEmpty(props.subject) /\ NonEmpty(props.title)
    /\ last.text # Undefined

RECURSIVE FirstBlankLine(_, _)
\* the index of the first line break that another line break follows, from i on
FirstBlankLine(s, i) ==
    IF i >= Len(s) THEN 0
    ELSE IF s[i] = "\n" /\ s[i + 1] = "\n" THEN i
    ELSE FirstBlankLine(s, i + 1)

RECURSIVE Lines(_)
\* s split at its line breaks
Lines(s) ==
    LET breaks == { i \in 1..Len(s) : s[i] = "\n" } IN
    IF breaks = { } THEN << s >>
    ELSE LET i == CHOOSE k \in breaks : \A j \in breaks : k <= j
         IN  << SubSeq(s, 1, i - 1) >> \o Lines(SubSeq(s, i + 1, Len(s)))

\* the header lines of a payload: what precedes its first blank line
HeaderLines(s) == Lines(SubSeq(s, 1, FirstBlankLine(s, 1) - 1))

NoLineBreak(s) == \A i \in 1..Len(s) : s[i] # "\n"

PayloadFormat ==
    last.text = << "A", "n", ":", " " >> \o props.emailTo
                    \o << "\n", "B", "e", "t", "r", "e", "f", "f", ":", " " >>
                    \o RenderedSubject \o << "\n", "\n" >> \o ContactBody

HeaderRecovered ==
    HeaderLines(last.text) =
        << << "A", "n", ":", " " >> \o props.emailTo,
           << "B", "e", "t", "r", "e", "f", "f", ":", " " >> \o RenderedSubject >>

\* C8 as stated: whatever emailTo and the subject are, the text handed to the
\* clipboard has the format and its header lines give back both.
C8_HeaderRoundTripAlways ==
    last.text # Undefined => PayloadFormat /\ HeaderRecovered

\* C8, amended: the text handed to the clipboard is
\* "An: <emailTo>\nBetreff: <subject>\n\n<body>", and when neither emailTo nor
\* the composed subject contains a line break, the part before its first blank
\* line is the two lines "An: <emailTo>" and "Betreff: <subject>".
C8_HeaderRoundTrip ==
    last.text # Undefined =>
        /\ PayloadFormat
        /\ (NoLineBreak(props.emailTo) /\ NoLineBreak(RenderedSubject)) => HeaderRecovered

\* a copy whose body has a blank line of its own and a contact field filled in
C8_Witness ==
    /\ last.text # Undefined
    /\ NoLineBreak(props.emailTo) /\ NoLineBreak(RenderedSubject)
    /\ props.bodyWithoutContact = << "\n", "\n", "H" >>
    /\ contactCompany # EmptyString

IsDigit(c) == \E i \in 1..10 : Digits[i] = c

RECURSIVE ToNumber(_)
\* the number a string of decimal digits denotes
ToNumber(s) ==
    IF s = << >> THEN 0
    ELSE 10 * ToNumber(SubSeq(s, 1, Len(s) - 1))
            + (CHOOSE n \in 0..9 : Digits[n + 1] = s[Len(s)])

\* ^\d{8}-\d{6}$
MatchesFormat(s) ==
    /\ Len(s) = 15
    /\ s[9] = "-"
    /\ \A i \in (1..8) \cup (10..15) : IsDigit(s[i])

\* the fields of YYYYMMDD-HHMMSS are those of the date d, the month 1-based
ReflectsDate(s, d) ==
    /\ ToNumber(SubSeq(s, 1, 4)) = d.getFullYear
    /\ ToNumber(SubSeq(s, 5, 6)) = d.getMonth + 1
    /\ ToNumber(SubSeq(s, 7, 8)) = d.getDate
    /\ ToNumber(SubSeq(s, 10, 11)) = d.getHours
    /\ ToNumber(SubSeq(s, 12, 13)) = d.getMinutes
    /\ ToNumber(SubSeq(s, 14, 15)) = d.getSeconds

FourDigitYear(d) == 1000 <= d.getFullYear /\ d.getFullYear <= 9999

====
